---------------------------- MODULE Spec2Model ----------------------------
(***************************************************************************)
(* A model of get_mouser_prices.py: the sequential fetch loop of           *)
(* DataProcessor.read_csv_and_search_parts, the price resolver             *)
(* DataProcessor.find_price_for_quantity and the BOM projection            *)
(* DataProcessor.extract_prices_and_save_to_csv.                           *)
(*                                                                         *)
(* Python strings whose content the program inspects (price strings, URLs) *)
(* are sequences of one-character strings, so that replace(), strip(),     *)
(* split() and float() are computed, not assumed.  Prices are fixed-point  *)
(* integers in hundredths (float("10.00") is 1000).  A JSON object is a    *)
(* function from its keys to its values, JSON null is the value None.      *)
(***************************************************************************)
EXTENDS Integers, Sequences, FiniteSets, TLC

VARIABLES
    \* ---- the pipeline run by main() ----
    pc,                   \* position of main(): "start", "fetch", "project", "done",
                          \* "config_error" (get_api_key raised), "crashed" (uncaught error)
    input_data,           \* the Datasheet cell of every row of BOM_.csv, in file order
    exclude_invalid_urls, \* the --exclude-invalid-urls flag
    api_key,              \* what the credential sources hold
    mouser_part_numbers,  \* the identifiers the fetch loop walks
    non_mouser_urls,      \* URLs classified non-supplier
    error_urls,           \* URLs whose parsing raised
    index,                \* the fetch loop's position (0-based, as in the code)
    results,              \* ResultSet: identifier -> response
    api_error_parts,      \* the fetch loop's error list
    request,              \* history: the last request issued, its outcome, the
                          \* position before it, and the soft-failure streak
    fetched,              \* history: identifiers some attempt answered non-empty
    writes,               \* history: identifier -> number of writes of results[identifier]
    row,                  \* the projection's position in input_data (0-based)
    output,               \* the rows written to updated_BOM.tsv so far
    crash,                \* the uncaught exception that ended the run, or "none"
    \* ---- a call of find_price_for_quantity on its own ----
    call_price_breaks,    \* the argument price_breaks
    call_target_quantity, \* the argument target_quantity
    call_result           \* the call's outcome, or Pending

pipeline_vars == <<pc, input_data, exclude_invalid_urls, api_key, mouser_part_numbers,
                   non_mouser_urls, error_urls, index, results, api_error_parts,
                   request, fetched, writes, row, output, crash>>
resolver_vars == <<call_price_breaks, call_target_quantity, call_result>>
vars == <<pipeline_vars, resolver_vars>>

-----------------------------------------------------------------------------
(* Bounds of the model.                                                    *)

MaxRows == 2        \* rows of the input BOM
MaxBreaks == 2      \* entries of an enumerated PriceBreaks list given to the resolver
MaxTarget == 12     \* the resolver is called for every target in 1..MaxTarget
MaxRetries == 2     \* the soft-failure streak is counted up to this value

-----------------------------------------------------------------------------
(* Python values.                                                          *)

None == [None |-> TRUE]
EmptyDict == << >>

dict_get(d, key, default) == IF key \in DOMAIN d THEN d[key] ELSE default

\* bool(result) for what response.json() or the except branches can hand back:
\* None and the empty object are falsy, every other object is truthy.
TruthyNotNone(v) == v # None
Truthy(v) == v # None /\ DOMAIN v # {}

Max(S) == CHOOSE x \in S : \A y \in S : y <= x
Min(S) == CHOOSE x \in S : \A y \in S : x <= y

\* str.replace(old, new): every non-overlapping occurrence, left to right.
RECURSIVE str_replace(_, _, _)
str_replace(s, old, new) ==
    IF Len(s) < Len(old) THEN s
    ELSE IF SubSeq(s, 1, Len(old)) = old
         THEN new \o str_replace(SubSeq(s, Len(old) + 1, Len(s)), old, new)
         ELSE <<s[1]>> \o str_replace(Tail(s), old, new)

\* str.strip(): leading and trailing whitespace removed.
RECURSIVE str_lstrip(_)
str_lstrip(s) == IF s # <<>> /\ s[1] = " " THEN str_lstrip(Tail(s)) ELSE s
RECURSIVE str_rstrip(_)
str_rstrip(s) ==
    IF s # <<>> /\ s[Len(s)] = " " THEN str_rstrip(SubSeq(s, 1, Len(s) - 1)) ELSE s
str_strip(s) == str_rstrip(str_lstrip(s))

\* str.split('/')[-1]: what follows the last '/', the whole string without one.
RECURSIVE last_segment(_)
last_segment(s) ==
    IF \E i \in 1..Len(s) : s[i] = "/"
    THEN last_segment(SubSeq(s, (CHOOSE i \in 1..Len(s) : s[i] = "/") + 1, Len(s)))
    ELSE s

Digits == <<"0", "1", "2", "3", "4", "5", "6", "7", "8", "9">>
IsDigit(c) == \E d \in 1..10 : Digits[d] = c
DigitVal(c) == (CHOOSE d \in 1..10 : Digits[d] = c) - 1

RECURSIVE int_of(_)
int_of(ds) == IF ds = <<>> THEN 0
              ELSE 10 * int_of(SubSeq(ds, 1, Len(ds) - 1)) + DigitVal(ds[Len(ds)])

\* float(s) for strings of digits, '.' and other characters: surrounding
\* whitespace is ignored; digits with at most one '.', and at least one digit,
\* convert; anything else raises ValueError.  The value is in hundredths
\* (the model's strings carry at most two decimals).
float(s) ==
    LET t == str_strip(s)
        dots == {i \in 1..Len(t) : t[i] = "."}
        wellformed == /\ \A i \in 1..Len(t) : IsDigit(t[i]) \/ t[i] = "."
                      /\ Cardinality(dots) <= 1
                      /\ \E i \in 1..Len(t) : IsDigit(t[i])
        p == IF dots = {} THEN Len(t) + 1 ELSE CHOOSE i \in dots : TRUE
        whole == SubSeq(t, 1, p - 1)
        frac == SubSeq(t, p + 1, Len(t))
        frac2 == SubSeq(frac \o <<"0", "0">>, 1, 2)
    IN  IF wellformed THEN [raised |-> "none", value |-> 100 * int_of(whole) + int_of(frac2)]
        ELSE [raised |-> "ValueError", value |-> 0]

-----------------------------------------------------------------------------
(* DataProcessor.find_price_for_quantity                                   *)

\* one entry's price: float(break_info['Price'].replace('kr ', '').replace(',', '.'))
parse_price(price) ==
    float(str_replace(str_replace(price, <<"k", "r", " ">>, <<>>), <<",">>, <<".">>))

\* the dict comprehension of line 251: a later entry of the list replaces an
\* earlier one with the same Quantity.
RECURSIVE build_price_dict(_)
build_price_dict(breaks) ==
    IF breaks = <<>> THEN << >>
    ELSE LET init == build_price_dict(SubSeq(breaks, 1, Len(breaks) - 1))
             last == breaks[Len(breaks)]
         IN  [q \in DOMAIN init \cup {last.Quantity} |->
                 IF q = last.Quantity THEN parse_price(last.Price).value ELSE init[q]]

\* sorted(keys, reverse=True)
RECURSIVE sorted_ascending(_)
sorted_ascending(S) ==
    IF S = {} THEN <<>> ELSE <<Min(S)>> \o sorted_ascending(S \ {Min(S)})
RECURSIVE sorted_descending(_)
sorted_descending(S) ==
    IF S = {} THEN <<>> ELSE <<Max(S)>> \o sorted_descending(S \ {Max(S)})

\* the for loop of lines 261-265, from position i of sorted_quantities on.
RECURSIVE greedy_loop(_, _, _, _, _)
greedy_loop(price_dict, sorted_quantities, i, nearest_price, remaining_quantity) ==
    IF i > Len(sorted_quantities) THEN nearest_price
    ELSE LET quantity == sorted_quantities[i]
         IN  IF quantity <= remaining_quantity
             THEN greedy_loop(price_dict, sorted_quantities, i + 1,
                              nearest_price
                                + (remaining_quantity \div quantity) * price_dict[quantity],
                              remaining_quantity % quantity)
             ELSE greedy_loop(price_dict, sorted_quantities, i + 1,
                              nearest_price, remaining_quantity)

\* the else side of the return of line 267:
\* price_dict[sorted_quantities[-1]] * (target_quantity // sorted_quantities[-1])
fallback_guarded(price_dict, sorted_quantities, target_quantity) ==
    IF sorted_quantities = <<>>
    THEN [raised |-> "none", value |-> 0, fallback |-> TRUE]
    ELSE LET smallest == sorted_quantities[Len(sorted_quantities)]
         IN  [raised |-> "none", fallback |-> TRUE,
              value |-> price_dict[smallest] * (target_quantity \div smallest)]
fallback_unit_price(price_dict, sorted_quantities, target_quantity) ==
    IF sorted_quantities = <<>>
    THEN [raised |-> "IndexError", value |-> 0, fallback |-> TRUE]
    ELSE LET smallest == sorted_quantities[Len(sorted_quantities)]
         IN  [raised |-> "none", fallback |-> TRUE, value |-> price_dict[smallest]]
fallback_price(price_dict, sorted_quantities, target_quantity) ==
    IF sorted_quantities = <<>>
    THEN [raised |-> "IndexError", value |-> 0, fallback |-> TRUE]
    ELSE LET smallest == sorted_quantities[Len(sorted_quantities)]
         IN  [raised |-> "none", fallback |-> TRUE,
              value |-> price_dict[smallest] * (target_quantity \div smallest)]

\* The outcome of a call: raised is "none" and value the price returned, or
\* raised names the exception; fallback tells that the value came from the
\* else side of the final return.
find_price_for_quantity(breaks, target) ==
    IF \E i \in 1..Len(breaks) : parse_price(breaks[i].Price).raised # "none"
    THEN [raised |-> "ValueError", value |-> 0, fallback |-> FALSE]
    ELSE LET price_dict == build_price_dict(breaks)
         IN  IF target \in DOMAIN price_dict
             THEN [raised |-> "none", value |-> price_dict[target], fallback |-> FALSE]
             ELSE LET sorted_quantities == sorted_descending(DOMAIN price_dict)
                      nearest_price == greedy_loop(price_dict, sorted_quantities, 1, 0, target)
                  IN  IF nearest_price > 0
                      THEN [raised |-> "none", value |-> nearest_price, fallback |-> FALSE]
                      ELSE fallback_price(price_dict, sorted_quantities, target)

-----------------------------------------------------------------------------
(* The inputs of a call of the resolver.                                   *)

kr(amount) == <<"k", "r", " ">> \o amount

\* Price strings in the locale format the resolver expects, 0.00 .. 10.00.
PriceStrings == { kr(<<"0", ",", "0", "0">>), kr(<<"6", ",", "0", "0">>),
                  kr(<<"8", ",", "0", "0">>), kr(<<"1", "0", ",", "0", "0">>) }
Quantities == {1, 3, 10, 100}
BreakInfos == [Quantity : Quantities, Price : PriceStrings]

\* PriceBreaks lists of at most n entries, in any order, quantities distinct.
RECURSIVE BreakLists(_)
BreakLists(n) ==
    IF n = 0 THEN {<<>>}
    ELSE LET shorter == BreakLists(n - 1)
         IN  shorter \cup
             { Append(tb[1], tb[2]) :
                 tb \in { x \in shorter \X BreakInfos :
                            /\ Len(x[1]) = n - 1
                            /\ \A i \in 1..Len(x[1]) : x[1][i].Quantity # x[2].Quantity } }

\* The two break tables worked in the specification: {1: 10, 10: 8, 100: 6},
\* listed out of order, and {100: 5}.
WorkedBreaks ==
    << [Quantity |-> 10, Price |-> kr(<<"8", ",", "0", "0">>)],
       [Quantity |-> 1, Price |-> kr(<<"1", "0", ",", "0", "0">>)],
       [Quantity |-> 100, Price |-> kr(<<"6", ",", "0", "0">>)] >>
SingleBreak == << [Quantity |-> 100, Price |-> kr(<<"5", ",", "0", "0">>)] >>

\* The quantities main() asks for, the spec's two worked targets, and a range.
TargetQuantities == (1..MaxTarget) \cup {25, 50, 100, 1000}

Pending == [raised |-> "pending", value |-> 0, fallback |-> FALSE]

-----------------------------------------------------------------------------
(* URLs and urllib.parse.urlparse.                                         *)

https == <<"h", "t", "t", "p", "s", ":", "/", "/">>
mouser_com == <<"m", "o", "u", "s", "e", "r", ".", "c", "o", "m">>
www_mouser_com == <<"w", "w", "w", ".">> \o mouser_com
example_com == <<"e", "x", "a", "m", "p", "l", "e", ".", "c", "o", "m">>
ProductDetail == <<"/", "P", "r", "o", "d", "u", "c", "t", "D", "e", "t", "a", "i", "l", "/">>

P1 == <<"P", "1">>
P2 == <<"P", "2">>

\* The Datasheet cells a BOM row can hold in the model.
UrlSupplierP1 == https \o www_mouser_com \o ProductDetail \o P1
UrlSupplierP2 == https \o www_mouser_com \o ProductDetail \o P2
UrlOtherHostP1 == https \o example_com \o <<"/", "d", "s", "/">> \o P1
UrlMalformed == https \o <<"[", "b", "a", "d", "/">> \o P1
UrlPlaceholder == <<"~">>
Urls == {UrlSupplierP1, UrlSupplierP2, UrlOtherHostP1, UrlMalformed, UrlPlaceholder}

str_contains(s, sub) ==
    \E i \in 1..(Len(s) - Len(sub) + 1) : SubSeq(s, i, i + Len(sub) - 1) = sub
str_find(s, c) == IF \E i \in 1..Len(s) : s[i] = c
                  THEN Min({i \in 1..Len(s) : s[i] = c}) ELSE 0

\* str.lower() over the capitals that occur in the model's strings.
Capitals == <<"P", "D">>
Smalls == <<"p", "d">>
str_lower(s) == [i \in 1..Len(s) |->
                    IF \E k \in 1..Len(Capitals) : Capitals[k] = s[i]
                    THEN Smalls[CHOOSE k \in 1..Len(Capitals) : Capitals[k] = s[i]]
                    ELSE s[i]]

\* urlparse(url) for strings without '?', '#' and ';': the scheme is what
\* precedes the first ':' when that is letters only; after it, "//" opens the
\* netloc, which runs to the next '/'; the rest is the path.  A netloc with
\* one of '[' and ']' but not the other raises ValueError (Invalid IPv6 URL).
Letters == {"h", "t", "p", "s", "w", "m", "o", "u", "e", "r", "c", "x", "a", "l", "d", "b"}
urlparse(url) ==
    LET colon == str_find(url, ":")
        has_scheme == colon > 1 /\ \A i \in 1..(colon - 1) : url[i] \in Letters
        rest == IF has_scheme THEN SubSeq(url, colon + 1, Len(url)) ELSE url
        has_netloc == Len(rest) >= 2 /\ rest[1] = "/" /\ rest[2] = "/"
        after == SubSeq(rest, 3, Len(rest))
        slash == str_find(after, "/")
        netloc == IF ~has_netloc THEN <<>>
                  ELSE IF slash = 0 THEN after ELSE SubSeq(after, 1, slash - 1)
        path == IF ~has_netloc THEN rest
                ELSE IF slash = 0 THEN <<>> ELSE SubSeq(after, slash, Len(after))
        open == str_find(netloc, "[") # 0
        close == str_find(netloc, "]") # 0
    IN  IF open # close
        THEN [raised |-> "ValueError", netloc |-> <<>>, path |-> <<>>]
        ELSE [raised |-> "none", netloc |-> netloc, path |-> path]

-----------------------------------------------------------------------------
(* The supplier API as search_part_number sees it.                         *)

price_break(q, price) == [Quantity |-> q, Price |-> price]
part_with(breaks) == [PriceBreaks |-> breaks]
found(parts) == [SearchResults |-> [Parts |-> parts]]

\* Non-empty JSON bodies of a 200 response.
BodyPriced == found(<< part_with(WorkedBreaks) >>)
BodyNoParts == found(<< >>)
BodyNoBreaks == found(<< part_with(<< >>) >>)
BodyForeignPrice ==
    found(<< part_with(<< price_break(1, <<"$", "1", ".", "0", "0">>) >>) >>)
BodyNullResults == [SearchResults |-> None]
BodyErrorsOnly == [Errors |-> <<"Invalid">>]
NonEmptyBodies == {BodyPriced, BodyNoParts, BodyNoBreaks, BodyForeignPrice,
                   BodyNullResults, BodyErrorsOnly}

\* What one requests.post can end in: a 2xx response with a JSON body, an
\* HTTP error status (raise_for_status raises HTTPError), or an exception
\* raised by the request or by response.json().
Responses == [kind : {"json"}, body : NonEmptyBodies \cup {EmptyDict}]
               \cup { [kind |-> "http_error", body |-> None],
                      [kind |-> "exception", body |-> None] }

\* APIManager.search_part_number: what the call hands to its caller.
search_part_number(part_number, response) ==
    IF response.kind = "json" THEN [raised |-> FALSE, value |-> response.body]
    ELSE IF response.kind = "http_error" THEN [raised |-> FALSE, value |-> None]
    ELSE [raised |-> FALSE, value |-> None]

-----------------------------------------------------------------------------
(* DataProcessor.read_csv_and_search_parts                                 *)

\* extract_urls: the stripped Datasheet cells that are not blank.
extract_urls(cells) ==
    LET stripped == [i \in 1..Len(cells) |-> str_strip(cells[i])]
        nonblank(u) == u # <<>>
    IN  SelectSeq(stripped, nonblank)

\* extract_part_numbers_from_urls: the three lists, in input order.
RECURSIVE extract_part_numbers_from_urls(_)
extract_part_numbers_from_urls(urls) ==
    IF urls = <<>>
    THEN [mouser_part_numbers |-> <<>>, non_mouser_urls |-> <<>>, error_urls |-> <<>>]
    ELSE LET before == extract_part_numbers_from_urls(SubSeq(urls, 1, Len(urls) - 1))
             url == urls[Len(urls)]
             parsed_url == urlparse(url)
             domain == str_lower(parsed_url.netloc)
         IN  IF parsed_url.raised # "none"
             THEN [before EXCEPT !.error_urls = Append(@, url)]
             ELSE IF str_contains(domain, mouser_com)
             THEN [before EXCEPT !.mouser_part_numbers =
                                   Append(@, str_strip(last_segment(parsed_url.path)))]
             ELSE [before EXCEPT !.non_mouser_urls = Append(@, url)]

dict_set(d, key, value) == [k \in DOMAIN d \cup {key} |-> IF k = key THEN value ELSE d[k]]

\* The three branches of the while loop's body, on the loop's own state
\* [index, results, api_error_parts].
on_success_no_advance(st, part_number, result) ==
    [st EXCEPT !.results = dict_set(@, part_number, result)]
on_success(st, part_number, result) ==
    [st EXCEPT !.results = dict_set(@, part_number, result), !.index = @ + 1]

on_rate_limit_advance(st) == [st EXCEPT !.index = @ + 1]
on_rate_limit(st) == st

on_exception(st, part_number) ==
    [st EXCEPT !.api_error_parts = Append(@, part_number), !.index = @ + 1]

\* The branch an iteration takes: the except clause when the call raised, the
\* if side when its result is truthy, the else side otherwise.
loop_branch(part_number, response) ==
    LET call == search_part_number(part_number, response)
    IN  IF call.raised THEN "except"
        ELSE IF Truthy(call.value) THEN "if" ELSE "else"

loop_body(st, part_number, response) ==
    LET call == search_part_number(part_number, response)
        branch == loop_branch(part_number, response)
    IN  IF branch = "except" THEN on_exception(st, part_number)
        ELSE IF branch = "if" THEN on_success(st, part_number, call.value)
        ELSE on_rate_limit(st)

\* How an attempt ended, as the API answered it (history only).
outcome_kind(response) ==
    IF response.kind = "json"
    THEN IF response.body \in NonEmptyBodies THEN "ok" ELSE "empty"
    ELSE response.kind

NoRequest == [index |-> -1, kind |-> "none", streak |-> 0]

-----------------------------------------------------------------------------
(* DataProcessor.extract_prices_and_save_to_csv                            *)

plain_row(cell) == [Datasheet |-> cell, priced |-> FALSE, prices |-> <<>>]

\* One iteration of the for loop over input_data: the row is skipped, written
\* without or with the four price columns, or an exception leaves the loop.
project_row(res, cell, exclude) ==
    IF exclude /\ (cell = <<>> \/ str_strip(cell) \in {<<"~">>, <<>>})
    THEN [raised |-> "none", written |-> FALSE, out |-> plain_row(cell)]
    ELSE LET parsed_url == urlparse(cell)
             part_number == last_segment(parsed_url.path)
         IN
         IF parsed_url.raised # "none"
         THEN [raised |-> parsed_url.raised, written |-> FALSE, out |-> plain_row(cell)]
         ELSE IF part_number \notin DOMAIN res
         THEN [raised |-> "none", written |-> TRUE, out |-> plain_row(cell)]
         ELSE LET search_results == dict_get(res[part_number], "SearchResults", EmptyDict)
              IN
              IF search_results = None
              THEN [raised |-> "AttributeError", written |-> FALSE, out |-> plain_row(cell)]
              ELSE LET parts == dict_get(search_results, "Parts", <<>>)
                   IN
                   IF parts = <<>>
                   THEN [raised |-> "none", written |-> TRUE, out |-> plain_row(cell)]
                   ELSE LET breaks == dict_get(parts[1], "PriceBreaks", <<>>)
                            asked == <<1, 10, 100, 1000>>
                            price == [i \in 1..4 |-> find_price_for_quantity(breaks, asked[i])]
                            failed == {i \in 1..4 : price[i].raised # "none"}
                        IN
                        IF failed # {}
                        THEN [raised |-> price[Min(failed)].raised, written |-> FALSE,
                              out |-> plain_row(cell)]
                        ELSE [raised |-> "none", written |-> TRUE,
                              out |-> [Datasheet |-> cell, priced |-> TRUE,
                                       prices |-> [i \in 1..4 |-> price[i].value]]]

-----------------------------------------------------------------------------
(* main()                                                                  *)

ResolverIdle ==
    /\ call_price_breaks = <<>> /\ call_target_quantity = 0 /\ call_result = Pending

\* BOM files of at most MaxRows rows.
Boms == UNION { [1..n -> Urls] : n \in 0..MaxRows }

Init ==
    /\ pc = "start"
    /\ input_data \in Boms
    /\ exclude_invalid_urls \in BOOLEAN
    /\ api_key \in BOOLEAN
    /\ mouser_part_numbers = <<>> /\ non_mouser_urls = <<>> /\ error_urls = <<>>
    /\ index = 0 /\ results = << >> /\ api_error_parts = <<>>
    /\ request = NoRequest /\ fetched = {} /\ writes = << >>
    /\ row = 0 /\ output = <<>> /\ crash = "none"
    /\ ResolverIdle

\* read_csv_and_search_parts up to its while loop: the credential check, the
\* URL extraction and the classification of the URLs.
StartRun ==
    /\ pc = "start"
    /\ LET urls == extract_urls(input_data)
           lists == extract_part_numbers_from_urls(urls)
           fetching == api_key /\ urls # <<>>
       IN  /\ pc' = IF ~api_key THEN "config_error"
                    ELSE IF urls = <<>> THEN "project" ELSE "fetch"
           /\ crash' = IF ~api_key THEN "Exception" ELSE crash
           /\ mouser_part_numbers' = IF fetching THEN lists.mouser_part_numbers
                                     ELSE mouser_part_numbers
           /\ non_mouser_urls' = IF fetching THEN lists.non_mouser_urls
                                 ELSE non_mouser_urls
           /\ error_urls' = IF fetching THEN lists.error_urls ELSE error_urls
    /\ UNCHANGED <<input_data, exclude_invalid_urls, api_key, index, results,
                   api_error_parts, request, fetched, writes, row, output, resolver_vars>>

\* One iteration of the while loop: one request and what the loop does with it.
FetchAttempt(response) ==
    /\ pc = "fetch"
    /\ index < Len(mouser_part_numbers)
    /\ LET part_number == mouser_part_numbers[index + 1]
           before == [index |-> index, results |-> results,
                      api_error_parts |-> api_error_parts]
           after == loop_body(before, part_number, response)
           kind == outcome_kind(response)
           wrote == loop_branch(part_number, response) = "if"
           count == dict_get(writes, part_number, 0)
       IN  /\ index' = after.index
           /\ results' = after.results
           /\ api_error_parts' = after.api_error_parts
           /\ request' = [index |-> index, kind |-> kind,
                          streak |-> IF kind = "empty"
                                     THEN Min({request.streak + 1, MaxRetries}) ELSE 0]
           /\ fetched' = IF kind = "ok" THEN fetched \cup {part_number} ELSE fetched
           /\ writes' = IF wrote
                        THEN dict_set(writes, part_number, Min({count + 1, MaxRows + 1}))
                        ELSE writes
    /\ UNCHANGED <<pc, input_data, exclude_invalid_urls, api_key, mouser_part_numbers,
                   non_mouser_urls, error_urls, row, output, crash, resolver_vars>>

FetchStep == \E response \in Responses : FetchAttempt(response)

\* The loop's exit: the results are returned, main() saves them and opens
\* the projection.
FetchReturn ==
    /\ pc = "fetch"
    /\ index >= Len(mouser_part_numbers)
    /\ pc' = "project"
    /\ UNCHANGED <<input_data, exclude_invalid_urls, api_key, mouser_part_numbers,
                   non_mouser_urls, error_urls, index, results, api_error_parts,
                   request, fetched, writes, row, output, crash, resolver_vars>>

\* One iteration of the projection's for loop.
ProjectRow ==
    /\ pc = "project"
    /\ row < Len(input_data)
    /\ LET done == project_row(results, input_data[row + 1], exclude_invalid_urls)
           raised == done.raised # "none"
       IN  /\ pc' = IF raised THEN "crashed" ELSE pc
           /\ crash' = IF raised THEN done.raised ELSE crash
           /\ row' = IF raised THEN row ELSE row + 1
           /\ output' = IF ~raised /\ done.written THEN Append(output, done.out)
                        ELSE output
    /\ UNCHANGED <<input_data, exclude_invalid_urls, api_key, mouser_part_numbers,
                   non_mouser_urls, error_urls, index, results, api_error_parts,
                   request, fetched, writes, resolver_vars>>

\* The projection's end: every row has been handled.
ProjectReturn ==
    /\ pc = "project"
    /\ row = Len(input_data)
    /\ pc' = "done"
    /\ UNCHANGED <<input_data, exclude_invalid_urls, api_key, mouser_part_numbers,
                   non_mouser_urls, error_urls, index, results, api_error_parts,
                   request, fetched, writes, row, output, crash, resolver_vars>>

Next == StartRun \/ FetchStep \/ FetchReturn \/ ProjectRow \/ ProjectReturn

Spec == Init /\ [][Next]_vars

-----------------------------------------------------------------------------
(* A call of find_price_for_quantity on its own: the price table and the   *)
(* target are drawn from the bounded sets, the pipeline stays idle.        *)

PipelineIdle ==
    /\ pc = "idle" /\ input_data = <<>> /\ exclude_invalid_urls = FALSE
    /\ api_key = FALSE /\ mouser_part_numbers = <<>> /\ non_mouser_urls = <<>>
    /\ error_urls = <<>> /\ index = 0 /\ results = << >> /\ api_error_parts = <<>>
    /\ request = NoRequest /\ fetched = {} /\ writes = << >> /\ row = 0
    /\ output = <<>> /\ crash = "none"

PriceInit ==
    /\ PipelineIdle
    /\ call_price_breaks \in BreakLists(MaxBreaks) \cup {WorkedBreaks, SingleBreak}
    /\ call_target_quantity \in TargetQuantities
    /\ call_result = Pending

\* One call of find_price_for_quantity.
ResolvePrice ==
    /\ call_result = Pending
    /\ call_result' = find_price_for_quantity(call_price_breaks, call_target_quantity)
    /\ UNCHANGED <<pipeline_vars, call_price_breaks, call_target_quantity>>

PriceNext == ResolvePrice

PriceSpec == PriceInit /\ [][PriceNext]_vars

-----------------------------------------------------------------------------
(* Fairness of the fetch loop.                                             *)

\* The fetch loop runs on while it can (it is the only thread and nothing
\* cancels it), and the API's answers are fair: while the loop keeps asking,
\* an attempt that is answered with a non-empty response or with a hard
\* failure eventually happens.
AnsweredAttempt ==
    \E response \in Responses :
        outcome_kind(response) # "empty" /\ FetchAttempt(response)

FairSpec ==
    /\ Init /\ [][Next]_vars
    /\ WF_vars(FetchStep) /\ WF_vars(FetchReturn)
    /\ SF_vars(AnsweredAttempt)

-----------------------------------------------------------------------------
(* The fetch loop.                                                         *)

HardKinds == {"http_error", "exception"}

\* C1: an attempt that ends in a transport or protocol error appends the
\* identifier to the error list, advances the loop to the next identifier and
\* leaves ResultSet without an entry from that attempt.
HardFailureRecorded ==
    [][ (pc = "fetch" /\ request' # request /\ request'.kind \in HardKinds)
          => /\ api_error_parts' = Append(api_error_parts, mouser_part_numbers[index + 1])
             /\ index' = index + 1
             /\ results' = results ]_vars

\* C2: an attempt answered with an empty response leaves the position, ResultSet
\* and the error list as they were; the request after it is for the same
\* position; a later position is requested only after the position before it
\* was answered otherwise; and however long the streak of empty answers, the
\* loop is still in its body at that position, another attempt enabled.
SoftFailureRetriesSamePosition ==
    /\ [][ (pc = "fetch" /\ request' # request)
             => /\ request'.kind = "empty"
                  => /\ index' = index
                     /\ results' = results
                     /\ api_error_parts' = api_error_parts
                     /\ pc' = "fetch"
                /\ request.kind = "empty" => request'.index = request.index
                /\ request'.index > request.index => request.kind # "empty" ]_vars
    /\ [](request.kind = "empty"
            => /\ pc = "fetch"
               /\ index = request.index
               /\ index < Len(mouser_part_numbers)
               /\ request.streak \in 1..MaxRetries)

\* C2's case: the longest counted streak of empty answers, the loop still at
\* the position of the request.
SoftFailureStreakReached ==
    /\ pc = "fetch"
    /\ request.kind = "empty"
    /\ request.streak = MaxRetries
    /\ index = request.index

\* C3: the keys of ResultSet are exactly the identifiers some attempt answered
\* with a non-empty response, and a key once present stays.
ResultSetIsFetchedSet ==
    /\ [](DOMAIN results = fetched)
    /\ [][DOMAIN results \subseteq DOMAIN results']_vars

\* C3's case: one identifier fetched, the next one answered with an empty
\* response or an error and without an entry.
FetchedAndFailedSideBySide ==
    /\ pc = "fetch"
    /\ index = 1
    /\ request.index = 1
    /\ request.kind \in HardKinds \cup {"empty"}
    /\ DOMAIN results = {mouser_part_numbers[1]}
    /\ mouser_part_numbers[2] \notin DOMAIN results

occurrences(seq, n, x) == Cardinality({i \in 1..n : seq[i] = x})

\* C4 as claimed: no entry of ResultSet is written more than once in a run.
EntryNeverOverwritten ==
    \A id \in DOMAIN writes : writes[id] <= 1

\* C4 as amended: an entry is written at most once per occurrence of its
\* identifier among the positions the loop has passed, so an entry is
\* written twice only for an identifier that occurs twice.
WritesWithinOccurrences ==
    /\ DOMAIN writes = DOMAIN results
    /\ \A id \in DOMAIN writes :
          /\ writes[id] >= 1
          /\ writes[id] <= occurrences(mouser_part_numbers, index, id)

\* C4's case: the same identifier on two rows, its entry written twice.
DuplicateRefetched ==
    \E id \in DOMAIN writes :
        /\ writes[id] = 2
        /\ occurrences(mouser_part_numbers, Len(mouser_part_numbers), id) = 2

\* C10: under the fairness of FairSpec the loop, once entered, terminates,
\* and once it has, every identifier is a key of ResultSet or in the error
\* list.
FetchLoopTerminates ==
    /\ (pc = "fetch") ~> (pc # "fetch")
    /\ [](pc \in {"project", "done", "crashed"}
            => \A i \in 1..Len(mouser_part_numbers) :
                  \/ mouser_part_numbers[i] \in DOMAIN results
                  \/ \E k \in 1..Len(api_error_parts) :
                        api_error_parts[k] = mouser_part_numbers[i])

-----------------------------------------------------------------------------
(* The BOM projection.                                                     *)

\* C6: once the credential check has passed, the run never ends in an
\* uncaught error.
RunNeverAborts == pc # "crashed"

\* A supplier URL whose extracted identifier has an entry with a matched part.
SupplierMatched(cell) ==
    LET parsed_url == urlparse(cell)
        id == str_strip(last_segment(parsed_url.path))
    IN  /\ parsed_url.raised = "none"
        /\ str_contains(str_lower(parsed_url.netloc), mouser_com)
        /\ id \in DOMAIN results
        /\ "SearchResults" \in DOMAIN results[id]
        /\ results[id].SearchResults # None
        /\ "Parts" \in DOMAIN results[id].SearchResults
        /\ results[id].SearchResults.Parts # <<>>

\* C7: a written row carries the price columns if and only if its URL is a
\* supplier URL whose identifier has an entry with a matched part.
PricedIffSupplierMatched ==
    \A i \in 1..Len(output) :
        output[i].priced <=> SupplierMatched(output[i].Datasheet)

\* The row the projection is at is not dropped by the flag and resolves to an
\* entry whose first matched part has an empty PriceBreaks list.
RowHasEmptyBreaks ==
    /\ pc = "project"
    /\ row < Len(input_data)
    /\ LET cell == input_data[row + 1]
           parsed_url == urlparse(cell)
           id == last_segment(parsed_url.path)
       IN  /\ ~(exclude_invalid_urls /\ cell = UrlPlaceholder)
           /\ parsed_url.raised = "none"
           /\ id \in DOMAIN results
           /\ results[id] = BodyNoBreaks

\* C8: the resolver raises IndexError on an empty PriceBreaks list whatever the
\* target, and the projection ends in that error at a row whose matched part
\* has an empty PriceBreaks list, the row not written.
EmptyBreaksFailTheProjection ==
    /\ [](\A t \in TargetQuantities :
            find_price_for_quantity(<<>>, t).raised = "IndexError")
    /\ [][ RowHasEmptyBreaks
             => /\ pc' = "crashed"
                /\ crash' = "IndexError"
                /\ row' = row
                /\ output' = output ]_vars

\* C8's case: the projection ended by the resolver's IndexError.
ProjectionEndedByIndexError ==
    /\ pc = "crashed"
    /\ crash = "IndexError"
    /\ results[last_segment(urlparse(input_data[row + 1]).path)] = BodyNoBreaks

-----------------------------------------------------------------------------
(* The price resolver.                                                     *)

listed(breaks) == {breaks[i].Quantity : i \in 1..Len(breaks)}
unit_price(breaks, q) ==
    parse_price(breaks[CHOOSE i \in 1..Len(breaks) : breaks[i].Quantity = q].Price).value

\* The reference greedy sum: the largest listed quantity that fits takes as
\* many whole multiples as fit, the remainder goes to the smaller quantities.
RECURSIVE greedy_reference(_, _, _)
greedy_reference(breaks, Q, remaining) ==
    LET fit == {q \in Q : q <= remaining}
    IN  IF fit = {} THEN 0
        ELSE (remaining \div Max(fit)) * unit_price(breaks, Max(fit))
               + greedy_reference(breaks, {q \in Q : q < Max(fit)}, remaining % Max(fit))

reference_price(breaks, target) ==
    IF target \in listed(breaks) THEN unit_price(breaks, target)
    ELSE greedy_reference(breaks, listed(breaks), target)

reference_price_with_fallback(breaks, target) ==
    LET sum == greedy_reference(breaks, listed(breaks), target)
        smallest == Min(listed(breaks))
    IN  IF target \in listed(breaks) THEN unit_price(breaks, target)
        ELSE IF sum > 0 THEN sum
        ELSE unit_price(breaks, smallest) * (target \div smallest)

Returned == call_result # Pending /\ call_price_breaks # <<>>

\* C5 as claimed: on a non-empty table the resolver returns the listed unit
\* price of an exact match and the reference greedy sum otherwise.
ResolverIsGreedySum ==
    Returned
      => /\ call_result.raised = "none"
         /\ call_result.value = reference_price(call_price_breaks, call_target_quantity)

\* C5 as amended: as claimed when the greedy sum is positive; when the sum is
\* zero the resolver returns the smallest break's unit price times
\* target // smallest quantity.  The worked table gives 8.00 for 10 and
\* 66.00 for 25.
ResolverIsGreedySumWithFallback ==
    Returned
      => /\ call_result.raised = "none"
         /\ call_result.value
              = reference_price_with_fallback(call_price_breaks, call_target_quantity)
         /\ (call_price_breaks = WorkedBreaks /\ call_target_quantity = 10)
              => call_result.value = 800
         /\ (call_price_breaks = WorkedBreaks /\ call_target_quantity = 25)
              => call_result.value = 6600

\* C5's case: the worked table resolved for 25 units.
WorkedTableResolved ==
    /\ call_price_breaks = WorkedBreaks
    /\ call_target_quantity = 25
    /\ call_result.raised = "none"
    /\ call_result.value = 6600

\* C9: with strictly positive unit prices the resolver returns 0 exactly when
\* the target is below the smallest break quantity, then by the fallback
\* expression; otherwise the result is positive and not the fallback's.
ZeroExactlyBelowSmallestBreak ==
    (Returned /\ \A q \in listed(call_price_breaks) : unit_price(call_price_breaks, q) > 0)
      => LET smallest == Min(listed(call_price_breaks))
             below == call_target_quantity < smallest
         IN  /\ call_result.raised = "none"
             /\ call_result.value = 0 <=> below
             /\ call_result.fallback <=> below
             /\ below => call_result.value
                           = unit_price(call_price_breaks, smallest)
                               * (call_target_quantity \div smallest)
             /\ ~below => call_result.value > 0

\* C9's case: {100: 5.00} resolved for 50 units.
BelowSmallestBreakResolved ==
    /\ call_price_breaks = SingleBreak
    /\ call_target_quantity = 50
    /\ call_result.raised = "none"
    /\ call_result.value = 0
    /\ call_result.fallback

=============================================================================
